---- MODULE Spec2Model ----
(***************************************************************************)
(* Circuit breaker state machine of sentinel-rust                          *)
(* (sentinel/src/core/circuitbreaker/breaker/mod.rs).                      *)
(*                                                                         *)
(* BreakerBase holds the lock-guarded State, the lock-free next-retry      *)
(* timestamp and the four guarded transition operations.  The strategies'  *)
(* try_pass and on_request_complete drive it; every caller is a thread     *)
(* that runs one call after the other: try_pass, the protected call,       *)
(* on_request_complete, the entry's exit hooks.                            *)
(*                                                                         *)
(* Spec leaves the trip predicate open, SpecPanic adds listeners that      *)
(* panic, SpecCounted drives the breaker with the Error-Count and          *)
(* Error-Ratio strategies over their Counter, SpecLocks follows the state  *)
(* Mutex and the listener-registry Mutex one acquisition at a time.        *)
(***************************************************************************)
EXTENDS Integers, Sequences, FiniteSets, TLC

\* ---------------------------------------------------------------- bounds
NumThreads == 3
NumListeners == 2
MaxCalls == 4
MaxTime == 3
RetryTimeoutMs == 1
MinRequestAmount == 2
ErrorCountThreshold == 1
RatioNum == 1
RatioDen == 2

Threads == 1..NumThreads
Listeners == 1..NumListeners
NoThread == 0

\* ---------------------------------------------------------------- state
VARIABLES
    state,                    \* BreakerBase.state, the value inside the Mutex
    next_retry_timestamp_ms,  \* BreakerBase.next_retry_timestamp_ms (AtomicU64)
    mutex,                    \* holder of the state Mutex, NoThread when free
    poisoned,                 \* the state Mutex and the registry Mutex are poisoned
    now,                      \* utils::curr_time_millis()
    pc,                       \* position of every thread in its call
    blocked,                  \* ctx.is_blocked() of the thread's current call
    hook,                     \* the thread's entry carries the rollback exit hook
    role,                     \* how the current call was admitted: none, normal, probe
    calls,                    \* number of calls started so far
    writes,                   \* number of assignments to *state so far
    changes,                  \* number of assignments that changed the value of *state
    lastEdge,                 \* the value of *state before and after the last assignment
    cbCount,                  \* per listener: callbacks received so far
    lastNotify,               \* the callbacks of the most recent notification loop
    openedAt,                 \* time of the most recent assignment of State::Open
    winsThisOpen,             \* from_open_to_half_open calls that returned true since then
    attemptsThisOpen,         \* from_open_to_half_open calls that returned since then
    ret,                      \* what the last guarded transition operation returned
    lastSnapshot,             \* the snapshot argument of the most recent notification loop
    prober,                   \* the thread whose call won the last Open->HalfOpen transition
    noEntry,                  \* the thread's probe was admitted with ctx.entry() == None
    strategy,                 \* the strategy that drives the breaker
    total,                    \* Counter aggregate: requests recorded in the window
    errs,                     \* Counter aggregate: errors recorded in the window
    evalAt,                   \* per thread: `changes` when it last evaluated the trip
                              \* predicate, -1 if a statistics reset was pending then
    registry,                 \* holder of the listener-registry Mutex, NoThread when free
    opAt                      \* per thread: the operation it runs and how far it has got,
                              \* when the two locks are followed one acquisition at a time

vars == <<state, next_retry_timestamp_ms, mutex, poisoned, now, pc, blocked, hook,
          role, calls, writes, changes, lastEdge, cbCount, lastNotify, openedAt,
          winsThisOpen, attemptsThisOpen, ret, lastSnapshot, prober, noEntry,
          strategy, total, errs, evalAt, registry, opAt>>

\* The position of the callers between the two locks.
lockVars == <<registry, opAt>>

\* The strategy's own data: BreakerBase never touches it.
counterVars == <<strategy, total, errs, evalAt>>

coreVars == <<state, next_retry_timestamp_ms, writes, changes, lastEdge, cbCount,
              lastNotify, openedAt, winsThisOpen, attemptsThisOpen, lastSnapshot, prober,
              counterVars>>

breakerVars == <<coreVars, ret>>

States == {"Closed", "HalfOpen", "Open"}

\* impl Default for State
DefaultState == "Closed"

\* The process-wide listener registry, in registration order.
state_change_listeners == [i \in 1..NumListeners |-> i]

InitBreaker ==
    /\ state = DefaultState
    /\ next_retry_timestamp_ms = 0
    /\ mutex = NoThread
    /\ poisoned = FALSE
    /\ now = 0
    /\ pc = [t \in Threads |-> "idle"]
    /\ blocked = [t \in Threads |-> FALSE]
    /\ hook = [t \in Threads |-> FALSE]
    /\ role = [t \in Threads |-> "none"]
    /\ calls = 0
    /\ writes = 0
    /\ changes = 0
    /\ lastEdge = <<DefaultState, DefaultState>>
    /\ cbCount = [l \in Listeners |-> 0]
    /\ lastNotify = <<>>
    /\ openedAt = 0
    /\ winsThisOpen = 0
    /\ attemptsThisOpen = 0
    /\ ret = FALSE
    /\ lastSnapshot = "none"
    /\ prober = NoThread
    /\ noEntry = [t \in Threads |-> FALSE]
    /\ total = 0
    /\ errs = 0
    /\ evalAt = [t \in Threads |-> 0]
    /\ registry = NoThread
    /\ opAt = [t \in Threads |-> <<"none", "idle">>]

\* The trip predicate is left open: any strategy.
Init == InitBreaker /\ strategy = "Any"

\* ---------------------------------------------------------------- helpers
Goto(t, label) == pc' = [pc EXCEPT ![t] = label]

\* self.state.lock().unwrap() on a Mutex that is free and not poisoned
CanLock == mutex = NoThread /\ ~poisoned

\* utils::curr_time_millis() >= next_retry_timestamp_ms.load()
retry_timeout_arrived == now >= next_retry_timestamp_ms

\* next_retry_timestamp_ms.store(curr_time_millis() + retry_timeout_ms)
update_next_retry_timestamp == next_retry_timestamp_ms' = now + RetryTimeoutMs

\* The loop walks the registry from its end.
Mut_ListenerOrder == [i \in 1..NumListeners |-> state_change_listeners[NumListeners + 1 - i]]

\* The order in which `for listener in &*listeners` visits the registry.
ListenerOrder == state_change_listeners

\* for listener in &*listeners { listener.on_transform_to_<kind>(prev, ..) }
\* The loop runs to its end when no callback panics (upto = NumListeners); a
\* callback that panics at position upto ends it there.
NotifyListeners(kind, prev, upto) ==
    /\ lastNotify' = [i \in 1..upto |-> <<ListenerOrder[i], kind, prev>>]
    /\ cbCount' = [l \in Listeners |->
                     IF \E i \in 1..upto : ListenerOrder[i] = l
                     THEN cbCount[l] + 1 ELSE cbCount[l]]

\* *state = <to>
Assign(to) ==
    /\ state' = to
    /\ writes' = writes + 1
    /\ changes' = IF state # to THEN changes + 1 ELSE changes
    /\ lastEdge' = <<state, to>>
    /\ UNCHANGED counterVars

\* Where a call goes when its entry exits: the exit hook, when one is registered.
AfterCall(t) == IF hook[t] THEN "hook_lock" ELSE "idle"

\* The per-call context is dropped with the call.
EndCall(t) ==
    /\ blocked' = [blocked EXCEPT ![t] = FALSE]
    /\ hook' = [hook EXCEPT ![t] = FALSE]
    /\ role' = [role EXCEPT ![t] = "none"]
    /\ noEntry' = [noEntry EXCEPT ![t] = FALSE]

\* A listener callback panicked inside the notification loop (f > 0): the
\* unwinding drops both MutexGuards of a panicking thread, which poisons the Mutexes.
Unwind(t) ==
    /\ poisoned' = TRUE
    /\ mutex' = NoThread
    /\ Goto(t, "panicked")
    /\ UNCHANGED <<blocked, hook, role, noEntry>>

Upto(f) == IF f = 0 THEN NumListeners ELSE f

\* The operation found another state than the one it starts from: `false`.
Refuse == ret' = FALSE /\ UNCHANGED coreVars

\* ---------------------------------------------------------------- BreakerBase
\* The operation refuses in every state.
Mut_closed_to_open_never == FALSE

\* The guard only rules out Open instead of asking for Closed.
Mut_closed_to_open_guard == state # "Open"

\* if *state == State::Closed
from_closed_to_open_guard == state = "Closed"

\* The operation returns false without looking at the state.
Mut_closed_to_open_body(f) == Refuse

\* from_closed_to_open, holding the lock: the body of lines 156-170.
from_closed_to_open_body(f) ==
    IF from_closed_to_open_guard
    THEN /\ Assign("Open")
         /\ update_next_retry_timestamp
         /\ NotifyListeners("to_open", "Closed", Upto(f))
         /\ openedAt' = now
         /\ winsThisOpen' = 0
         /\ attemptsThisOpen' = 0
         /\ ret' = TRUE
         /\ lastSnapshot' = "snapshot"
         /\ UNCHANGED prober
    ELSE Refuse

\* The guard also lets a caller through that finds the breaker already HalfOpen.
Mut_open_to_half_open_guard == state \in {"Open", "HalfOpen"}

\* if *state == State::Open
from_open_to_half_open_guard == state = "Open"

from_open_to_half_open_body(f) ==
    IF from_open_to_half_open_guard
    THEN /\ Assign("HalfOpen")
         /\ NotifyListeners("to_half_open", "Open", Upto(f))
         /\ winsThisOpen' = winsThisOpen + 1
         /\ attemptsThisOpen' = attemptsThisOpen + 1
         /\ ret' = TRUE
         /\ lastSnapshot' = "none"
         /\ UNCHANGED <<next_retry_timestamp_ms, openedAt>>
    ELSE /\ attemptsThisOpen' = attemptsThisOpen + 1
         /\ ret' = FALSE
         /\ UNCHANGED <<state, next_retry_timestamp_ms, writes, changes, lastEdge,
                        cbCount, lastNotify, openedAt, winsThisOpen, lastSnapshot,
                        counterVars>>

\* The guard only rules out Closed instead of asking for HalfOpen.
Mut_half_open_to_open_guard == state # "Closed"

\* if *state == State::HalfOpen
from_half_open_to_open_guard == state = "HalfOpen"

from_half_open_to_open_body(f) ==
    IF from_half_open_to_open_guard
    THEN /\ Assign("Open")
         /\ update_next_retry_timestamp
         /\ NotifyListeners("to_open", "HalfOpen", Upto(f))
         /\ openedAt' = now
         /\ winsThisOpen' = 0
         /\ attemptsThisOpen' = 0
         /\ ret' = TRUE
         /\ lastSnapshot' = "snapshot"
         /\ UNCHANGED prober
    ELSE Refuse

\* The guard only rules out Closed instead of asking for HalfOpen.
Mut_half_open_to_closed_guard == state # "Closed"

\* if *state == State::HalfOpen
from_half_open_to_closed_guard == state = "HalfOpen"

from_half_open_to_closed_body(f) ==
    IF from_half_open_to_closed_guard
    THEN /\ Assign("Closed")
         /\ NotifyListeners("to_closed", "HalfOpen", Upto(f))
         /\ UNCHANGED <<next_retry_timestamp_ms, openedAt, winsThisOpen, attemptsThisOpen>>
         /\ ret' = TRUE
         /\ lastSnapshot' = "none"
         /\ UNCHANGED prober
    ELSE Refuse

\* The hook only asks whether the call was blocked.
Mut_when_exit_guard(t) == blocked[t]

\* The hook only asks whether the breaker is HalfOpen.
Mut_when_exit_state_guard(t) == state = "HalfOpen"

\* if ctx.borrow().is_blocked() && *state == State::HalfOpen
when_exit_guard(t) == blocked[t] /\ state = "HalfOpen"

\* The closure handed to entry.when_exit, holding the lock.
when_exit_body(t, f) ==
    IF when_exit_guard(t)
    THEN /\ Assign("Open")
         /\ NotifyListeners("to_open", "HalfOpen", Upto(f))
         /\ openedAt' = now
         /\ winsThisOpen' = 0
         /\ attemptsThisOpen' = 0
         /\ lastSnapshot' = "1.0"
         /\ UNCHANGED <<next_retry_timestamp_ms, ret, prober>>
    ELSE UNCHANGED breakerVars

\* let mut state = self.state.lock().unwrap();   (every guarded operation)
Lock(t, at, to) ==
    /\ pc[t] = at
    /\ CanLock
    /\ mutex' = t
    /\ Goto(t, to)
    /\ UNCHANGED <<breakerVars, lockVars, poisoned, now, blocked, hook, role, noEntry, calls>>

\* The guard is dropped when the operation returns; the thread goes on.
Unlock(t, to) ==
    /\ mutex' = NoThread
    /\ Goto(t, to)
    /\ UNCHANGED poisoned

from_closed_to_open(t, f) ==
    /\ pc[t] = "c2o_cs"
    /\ from_closed_to_open_body(f)
    /\ IF f > 0 /\ from_closed_to_open_guard
       THEN Unwind(t)
       ELSE /\ Unlock(t, AfterCall(t))
            /\ IF hook[t] THEN UNCHANGED <<blocked, hook, role, noEntry>> ELSE EndCall(t)
    /\ UNCHANGED <<now, calls, lockVars>>

\* The entry is taken to be there even when the context has none.
Mut_entry_is_none(hasEntry) == FALSE

\* if entry.is_none()
entry_is_none(hasEntry) == ~hasEntry

\* hasEntry: ctx.borrow().entry() is Some.  The registration of the hook
\* (Rc::get_mut(..).unwrap().when_exit(..), after drop(state)) is taken to reach
\* the entry: the entry types are not part of this file.
from_open_to_half_open(t, f, hasEntry) ==
    /\ pc[t] = "o2h_cs"
    /\ from_open_to_half_open_body(f)
    /\ prober' = IF from_open_to_half_open_guard THEN t ELSE prober
    /\ IF f > 0 /\ from_open_to_half_open_guard
       THEN Unwind(t)
       ELSE IF from_open_to_half_open_guard
            THEN /\ Unlock(t, "pass")
                 /\ role' = [role EXCEPT ![t] = "probe"]
                 /\ hook' = [hook EXCEPT ![t] = ~entry_is_none(hasEntry)]
                 /\ noEntry' = [noEntry EXCEPT ![t] = ~hasEntry]
                 /\ UNCHANGED blocked
            ELSE /\ Unlock(t, "idle")
                 /\ UNCHANGED <<blocked, hook, role, noEntry>>
    /\ UNCHANGED <<now, calls, lockVars>>

from_half_open_to_open(t, f) ==
    /\ pc[t] = "h2o_cs"
    /\ from_half_open_to_open_body(f)
    /\ IF f > 0 /\ from_half_open_to_open_guard
       THEN Unwind(t)
       ELSE /\ Unlock(t, AfterCall(t))
            /\ IF hook[t] THEN UNCHANGED <<blocked, hook, role, noEntry>> ELSE EndCall(t)
    /\ UNCHANGED <<now, calls, lockVars>>

\* Where the caller goes when from_half_open_to_closed has returned: a counting
\* strategy follows `true` with reset_metric().
AfterClosed(t) ==
    IF strategy # "Any" /\ from_half_open_to_closed_guard THEN "reset" ELSE AfterCall(t)

from_half_open_to_closed(t, f) ==
    /\ pc[t] = "h2c_cs"
    /\ from_half_open_to_closed_body(f)
    /\ IF f > 0 /\ from_half_open_to_closed_guard
       THEN Unwind(t)
       ELSE /\ Unlock(t, AfterClosed(t))
            /\ IF AfterClosed(t) = "idle"
               THEN EndCall(t) ELSE UNCHANGED <<blocked, hook, role, noEntry>>
    /\ UNCHANGED <<now, calls, lockVars>>

when_exit(t, f) ==
    /\ pc[t] = "hook_cs"
    /\ when_exit_body(t, f)
    /\ IF f > 0 /\ when_exit_guard(t)
       THEN Unwind(t)
       ELSE Unlock(t, "idle") /\ EndCall(t)
    /\ UNCHANGED <<now, calls, lockVars>>

\* ---------------------------------------------------------------- strategy facade
\* try_pass: Closed -> permitted; HalfOpen -> denied; Open -> denied unless the
\* recovery timer has elapsed.  The first step is current_state().
try_pass(t) ==
    /\ pc[t] = "idle"
    /\ calls < MaxCalls
    /\ CanLock
    /\ calls' = calls + 1
    /\ IF state = "Closed"
       THEN Goto(t, "pass") /\ role' = [role EXCEPT ![t] = "normal"]
       ELSE IF state = "Open"
            THEN Goto(t, "tp_timer") /\ UNCHANGED role
            ELSE Goto(t, "idle") /\ UNCHANGED role
    /\ UNCHANGED <<breakerVars, lockVars, mutex, poisoned, now, blocked, hook, noEntry>>

\* try_pass in Open: retry_timeout_arrived() && from_open_to_half_open(ctx)
try_pass_timer(t) ==
    /\ pc[t] = "tp_timer"
    /\ IF retry_timeout_arrived THEN Goto(t, "o2h_lock") ELSE Goto(t, "idle")
    /\ UNCHANGED <<breakerVars, lockVars, mutex, poisoned, now, blocked, hook, role, noEntry, calls>>

\* The admitted call is blocked elsewhere (by a later rule check): it never
\* runs, no completion is reported, the entry exits with is_blocked().
blocked_elsewhere(t) ==
    /\ pc[t] = "pass"
    /\ Goto(t, AfterCall(t))
    /\ IF hook[t]
       THEN blocked' = [blocked EXCEPT ![t] = TRUE] /\ UNCHANGED <<hook, role, noEntry>>
       ELSE EndCall(t)
    /\ UNCHANGED <<breakerVars, lockVars, mutex, poisoned, now, calls>>

\* on_request_complete(rt, error): records the outcome, reads current_state()
\* and hands over to the transition the state asks for.  trips is the trip
\* predicate's answer over the window, err the call's own outcome.
on_request_complete(t, err, trips) ==
    /\ pc[t] = "pass"
    /\ CanLock
    /\ IF state = "Closed"
       THEN IF trips THEN Goto(t, "c2o_lock") ELSE Goto(t, AfterCall(t))
       ELSE IF state = "HalfOpen"
            THEN IF err THEN Goto(t, "h2o_lock") ELSE Goto(t, "h2c_lock")
            ELSE Goto(t, AfterCall(t))
    /\ IF pc'[t] = "idle" THEN EndCall(t) ELSE UNCHANGED <<blocked, hook, role, noEntry>>
    /\ UNCHANGED <<breakerVars, lockVars, mutex, poisoned, now, calls>>

\* Error-Count: errors >= threshold and total >= minimum sample size.
error_count_trips(e, n, threshold, min_request_amount) ==
    e >= threshold /\ n >= min_request_amount

\* Error-Ratio: errors / total >= threshold (= num / den) and total >= minimum
\* sample size; the division is defined for total > 0.
error_ratio_trips(e, n, num, den, min_request_amount) ==
    n > 0 /\ n >= min_request_amount /\ e * den >= num * n

\* The trip predicate of the breaker's strategy over the aggregate (e, n).
strategy_trips(e, n) ==
    IF strategy = "ErrorCount"
    THEN error_count_trips(e, n, ErrorCountThreshold, MinRequestAmount)
    ELSE error_ratio_trips(e, n, RatioNum, RatioDen, MinRequestAmount)

\* A successful HalfOpen->Closed transition is not yet followed by its reset_metric().
ResetPending == \E u \in Threads : pc[u] = "reset"

\* on_request_complete(rt, error) of a counting strategy: records the outcome
\* first, reads current_state(), and in Closed evaluates the trip predicate over
\* the aggregate it has just updated.
on_request_complete_counted(t, err) ==
    /\ pc[t] = "pass"
    /\ CanLock
    /\ total' = total + 1
    /\ errs' = IF err THEN errs + 1 ELSE errs
    /\ evalAt' = [evalAt EXCEPT ![t] = IF ResetPending THEN -1 ELSE changes]
    /\ IF state = "Closed"
       THEN IF strategy_trips(errs', total') THEN Goto(t, "c2o_lock") ELSE Goto(t, AfterCall(t))
       ELSE IF state = "HalfOpen"
            THEN IF err THEN Goto(t, "h2o_lock") ELSE Goto(t, "h2c_lock")
            ELSE Goto(t, AfterCall(t))
    /\ IF pc'[t] = "idle" THEN EndCall(t) ELSE UNCHANGED <<blocked, hook, role, noEntry>>
    /\ UNCHANGED <<state, next_retry_timestamp_ms, writes, changes, lastEdge, cbCount,
                   lastNotify, openedAt, winsThisOpen, attemptsThisOpen, lastSnapshot,
                   prober, ret, strategy, mutex, poisoned, now, calls, lockVars>>

\* reset_metric(): the strategy clears its Counter after from_half_open_to_closed.
reset_metric(t) ==
    /\ pc[t] = "reset"
    /\ total' = 0
    /\ errs' = 0
    /\ Goto(t, AfterCall(t))
    /\ IF hook[t] THEN UNCHANGED <<blocked, hook, role, noEntry>> ELSE EndCall(t)
    /\ UNCHANGED <<state, next_retry_timestamp_ms, writes, changes, lastEdge, cbCount,
                   lastNotify, openedAt, winsThisOpen, attemptsThisOpen, lastSnapshot,
                   prober, ret, strategy, evalAt, mutex, poisoned, now, calls, lockVars>>

\* utils::curr_time_millis() advances.
Tick ==
    /\ now < MaxTime
    /\ now' = now + 1
    /\ UNCHANGED <<breakerVars, lockVars, mutex, poisoned, pc, blocked, hook, role, noEntry, calls>>

\* lock().unwrap() on a poisoned Mutex panics in the calling thread.
LockPoisoned(t) ==
    /\ poisoned
    /\ \/ pc[t] \in {"o2h_lock", "c2o_lock", "h2o_lock", "h2c_lock", "hook_lock", "pass"}
       \/ pc[t] = "idle" /\ calls < MaxCalls
    /\ Goto(t, "panicked")
    /\ calls' = IF pc[t] = "idle" THEN calls + 1 ELSE calls
    /\ UNCHANGED <<breakerVars, lockVars, mutex, poisoned, now, blocked, hook, role, noEntry>>

\* ---------------------------------------------------------------- specifications
Step(t, f) ==
    \/ try_pass(t)
    \/ try_pass_timer(t)
    \/ Lock(t, "o2h_lock", "o2h_cs")
    \/ \E hasEntry \in BOOLEAN : from_open_to_half_open(t, f, hasEntry)
    \/ blocked_elsewhere(t)
    \/ \E err, trips \in BOOLEAN : on_request_complete(t, err, trips)
    \/ Lock(t, "c2o_lock", "c2o_cs")
    \/ from_closed_to_open(t, f)
    \/ Lock(t, "h2o_lock", "h2o_cs")
    \/ from_half_open_to_open(t, f)
    \/ Lock(t, "h2c_lock", "h2c_cs")
    \/ from_half_open_to_closed(t, f)
    \/ Lock(t, "hook_lock", "hook_cs")
    \/ when_exit(t, f)

\* Listener callbacks return.
Next == Tick \/ \E t \in Threads : Step(t, 0)

Spec == Init /\ [][Next]_vars

\* Listener callbacks may panic: f is the position of the callback that does.
NextPanic ==
    \/ Tick
    \/ \E t \in Threads : \E f \in 0..NumListeners : Step(t, f)
    \/ \E t \in Threads : LockPoisoned(t)

SpecPanic == Init /\ [][NextPanic]_vars

\* The breaker of an Error-Count or Error-Ratio strategy.
InitCounted == InitBreaker /\ strategy \in {"ErrorCount", "ErrorRatio"}

StepCounted(t) ==
    \/ try_pass(t)
    \/ try_pass_timer(t)
    \/ Lock(t, "o2h_lock", "o2h_cs")
    \/ \E hasEntry \in BOOLEAN : from_open_to_half_open(t, 0, hasEntry)
    \/ blocked_elsewhere(t)
    \/ \E err \in BOOLEAN : on_request_complete_counted(t, err)
    \/ Lock(t, "c2o_lock", "c2o_cs")
    \/ from_closed_to_open(t, 0)
    \/ Lock(t, "h2o_lock", "h2o_cs")
    \/ from_half_open_to_open(t, 0)
    \/ Lock(t, "h2c_lock", "h2c_cs")
    \/ from_half_open_to_closed(t, 0)
    \/ reset_metric(t)
    \/ Lock(t, "hook_lock", "hook_cs")
    \/ when_exit(t, 0)

NextCounted == Tick \/ \E t \in Threads : StepCounted(t)

SpecCounted == InitCounted /\ [][NextCounted]_vars

\* ---------------------------------------------------------------- the two locks
\* The operations that lock: the four transitions, the exit hook, current_state().
Operations == {"from_closed_to_open", "from_open_to_half_open", "from_half_open_to_open",
               "from_half_open_to_closed", "when_exit", "current_state"}

\* One operation takes the listener-registry lock before the state lock.
Mut_FirstLock(op) == IF op = "from_half_open_to_closed" THEN "listeners" ELSE "state"

\* let mut state = self.state.lock().unwrap() is the first statement of every
\* operation; state_change_listeners().lock() comes inside the branch that wrote.
FirstLock(op) == "state"

\* if *state == <source> (and is_blocked(), for the hook)
OperationGuard(t, op) ==
    CASE op = "from_closed_to_open" -> from_closed_to_open_guard
      [] op = "from_open_to_half_open" -> from_open_to_half_open_guard
      [] op = "from_half_open_to_open" -> from_half_open_to_open_guard
      [] op = "from_half_open_to_closed" -> from_half_open_to_closed_guard
      [] op = "when_exit" -> when_exit_guard(t)
      [] op = "current_state" -> FALSE

\* *state = <target>
OperationTarget(op) ==
    CASE op = "from_open_to_half_open" -> "HalfOpen"
      [] op = "from_half_open_to_closed" -> "Closed"
      [] OTHER -> "Open"

\* listener.on_transform_to_<kind>
OperationCallback(op) ==
    CASE op = "from_open_to_half_open" -> "to_half_open"
      [] op = "from_half_open_to_closed" -> "to_closed"
      [] OTHER -> "to_open"

SetAt(t, op, stage) == opAt' = [opAt EXCEPT ![t] = <<op, stage>>]

\* What the lock-level steps leave alone.
lockFrame == <<poisoned, now, pc, role, noEntry, openedAt, winsThisOpen, attemptsThisOpen,
               ret, lastSnapshot, prober>>

\* A caller enters one of the operations.  The exit hook runs for an entry that
\* carries it, once; isBlocked is ctx.is_blocked() of that call.
call_operation(t, op, isBlocked) ==
    /\ opAt[t][2] = "idle"
    /\ calls < MaxCalls
    /\ (op = "when_exit") => hook[t]
    /\ calls' = calls + 1
    /\ hook' = IF op = "when_exit" THEN [hook EXCEPT ![t] = FALSE] ELSE hook
    /\ blocked' = [blocked EXCEPT ![t] = (op = "when_exit") /\ isBlocked]
    /\ SetAt(t, op, IF FirstLock(op) = "state" THEN "state_wait" ELSE "listeners_wait")
    /\ UNCHANGED <<coreVars, lockFrame, mutex, registry>>

\* self.state.lock(): the caller waits until the state Mutex is free.
state_lock(t) ==
    /\ opAt[t][2] = "state_wait"
    /\ mutex = NoThread
    /\ mutex' = t
    /\ SetAt(t, opAt[t][1], "locked")
    /\ UNCHANGED <<coreVars, lockFrame, registry, calls, hook, blocked>>

\* Holding the state lock: the test of the state, and the write in the branch
\* that passes it.  The other branch returns false and drops the guard;
\* current_state() copies the value and drops the guard.
guarded_write(t) ==
    /\ opAt[t][2] = "locked"
    /\ mutex = t
    /\ IF OperationGuard(t, opAt[t][1])
       THEN /\ Assign(OperationTarget(opAt[t][1]))
            /\ IF opAt[t][1] \in {"from_closed_to_open", "from_half_open_to_open"}
               THEN update_next_retry_timestamp
               ELSE UNCHANGED next_retry_timestamp_ms
            /\ SetAt(t, opAt[t][1], IF registry = t THEN "notify" ELSE "listeners_wait")
            /\ UNCHANGED <<mutex, registry>>
       ELSE /\ mutex' = NoThread
            /\ registry' = IF registry = t THEN NoThread ELSE registry
            /\ SetAt(t, "none", "idle")
            /\ UNCHANGED <<state, writes, changes, lastEdge, next_retry_timestamp_ms,
                           counterVars>>
    /\ UNCHANGED <<lockFrame, cbCount, lastNotify, calls, hook, blocked>>

\* state_change_listeners().lock(): the caller waits until the registry Mutex is free.
listeners_lock(t) ==
    /\ opAt[t][2] = "listeners_wait"
    /\ registry = NoThread
    /\ registry' = t
    /\ SetAt(t, opAt[t][1], IF mutex = t THEN "notify" ELSE "state_wait")
    /\ UNCHANGED <<coreVars, lockFrame, mutex, calls, hook, blocked>>

\* The listener loop, then the end of the operation.  from_open_to_half_open
\* with an entry drops the state guard here and keeps the registry guard until
\* it returns; every other path drops both guards.
notify_listeners(t, hasEntry) ==
    /\ opAt[t][2] = "notify"
    /\ NotifyListeners(OperationCallback(opAt[t][1]), lastEdge[1], NumListeners)
    /\ mutex' = NoThread
    /\ IF opAt[t][1] = "from_open_to_half_open" /\ ~entry_is_none(hasEntry)
       THEN SetAt(t, opAt[t][1], "when_exit") /\ UNCHANGED registry
       ELSE SetAt(t, "none", "idle") /\ registry' = NoThread
    /\ UNCHANGED <<state, writes, changes, lastEdge, next_retry_timestamp_ms, counterVars,
                   lockFrame, calls, hook, blocked>>

\* entry.when_exit(Box::new(..)) after drop(state): the hook is stored, the
\* operation returns true and the registry guard goes out of scope.
register_when_exit(t) ==
    /\ opAt[t][2] = "when_exit"
    /\ hook' = [hook EXCEPT ![t] = TRUE]
    /\ registry' = NoThread
    /\ SetAt(t, "none", "idle")
    /\ UNCHANGED <<coreVars, lockFrame, mutex, calls, blocked>>

StepLocks(t) ==
    \/ \E op \in Operations : \E isBlocked \in BOOLEAN : call_operation(t, op, isBlocked)
    \/ state_lock(t)
    \/ guarded_write(t)
    \/ listeners_lock(t)
    \/ \E hasEntry \in BOOLEAN : notify_listeners(t, hasEntry)
    \/ register_when_exit(t)

NextLocks == \E t \in Threads : StepLocks(t)

\* Every thread is scheduled, and a free Mutex is handed to a waiting thread:
\* some caller that can go on does go on.
SpecLocks == Init /\ [][NextLocks]_vars /\ WF_vars(NextLocks)

TypeOK ==
    /\ state \in States
    /\ next_retry_timestamp_ms \in 0..(MaxTime + RetryTimeoutMs)
    /\ mutex \in Threads \cup {NoThread}
    /\ now \in 0..MaxTime
    /\ calls \in 0..MaxCalls

\* ---------------------------------------------------------------- claims
\* The edges of the state graph in the module header of breaker/mod.rs.
Edges ==
    {<<"Closed", "Open">>, <<"Open", "HalfOpen">>,
     <<"HalfOpen", "Open">>, <<"HalfOpen", "Closed">>}

\* C1: the breaker starts Closed and every assignment to the state, by any
\* operation in any interleaving, follows one of the four edges Closed->Open,
\* Open->HalfOpen, HalfOpen->Open, HalfOpen->Closed; in particular no assignment
\* writes the value already held, and the value changes only by an assignment.
C1_ValidPath ==
    /\ state = "Closed"
    /\ [][/\ (writes' # writes) => (<<state, state'>> \in Edges)
          /\ (state' # state) => (writes' = writes + 1)]_vars

\* The breaker has gone once around the graph and tripped again.
C1_Witness == changes >= 4 /\ state = "Open" /\ lastEdge = <<"Closed", "Open">>

\* from_open_to_half_open of thread t returns in this step.
ReturnsHalfOpen(t) == pc[t] = "o2h_cs" /\ pc'[t] # "o2h_cs"

\* C2: in one Open period at most one from_open_to_half_open call returns true,
\* and as soon as any call of that period has returned there is exactly one
\* winner; the winner's try_pass admits it as the probe, every other caller of
\* the period gets false and its try_pass denies it.
C2_OneWinner ==
    /\ [](winsThisOpen <= 1 /\ ((attemptsThisOpen >= 1) => (winsThisOpen = 1)))
    /\ [][\A t \in Threads : ReturnsHalfOpen(t) =>
            IF state = "Open"
            THEN winsThisOpen' = 1 /\ pc'[t] = "pass" /\ role'[t] = "probe"
            ELSE winsThisOpen' = winsThisOpen /\ pc'[t] = "idle" /\ role'[t] = "none"]_vars

\* Three callers raced for the same Open period: one won, two lost.
C2_Witness == attemptsThisOpen = 3 /\ winsThisOpen = 1 /\ state = "HalfOpen"

\* The hook of thread t has just run to its end for a call that was blocked.
HookRanBlocked(t) == pc[t] = "hook_cs" /\ pc'[t] = "idle" /\ blocked[t]

\* C3: when the exit hook of a probe that ended up blocked has run, the breaker
\* state is Open, whatever other callers did between the probe's admission and
\* the hook.
C3_BlockedProbeReopens ==
    [][\A t \in Threads : HookRanBlocked(t) => (state' = "Open")]_vars

\* A call wins the Open->HalfOpen transition in this step.
WinsHalfOpen == state = "Open" /\ state' = "HalfOpen"

\* C4: after every transition into Open at time openedAt no try_pass wins the
\* Open->HalfOpen transition (all return false) before openedAt + retry_timeout_ms.
C4_DeniedUntilTimeout ==
    [][WinsHalfOpen => (now >= openedAt + RetryTimeoutMs)]_vars

\* C5: whenever the state lock is free and the state is Open, the next-retry
\* timestamp equals the time of the most recent transition into Open plus
\* retry_timeout_ms (every operation that writes Open arms the timer under the lock).
C5_OpenArmsTimer ==
    (mutex = NoThread /\ state = "Open") =>
        (next_retry_timestamp_ms = openedAt + RetryTimeoutMs)

\* C6: at the moment a try_pass call performs a successful Open->HalfOpen
\* transition the current time is >= the next-retry timestamp held at that moment.
C6_NoEarlyProbe ==
    [][WinsHalfOpen => (now >= next_retry_timestamp_ms)]_vars

\* C7: every listener has received exactly one callback per actual change of
\* the breaker state and none for an operation that changed nothing: its number
\* of callbacks equals the number of state changes performed so far.
C7_OneCallbackPerChange == \A l \in Listeners : cbCount[l] = changes

\* Several changes happened, and a racing from_open_to_half_open call lost.
C7_Witness == changes >= 3 /\ attemptsThisOpen >= 2 /\ cbCount[1] = 3

\* The callback a listener gets for a change into state s.
CallbackFor(s) ==
    CASE s = "Open" -> "to_open"
      [] s = "HalfOpen" -> "to_half_open"
      [] s = "Closed" -> "to_closed"

\* C8: on every state change the listeners are notified in registration order,
\* each with the callback that matches the new state and with the prev argument
\* equal to the state actually held immediately before the change.
C8_NotifyInOrder ==
    IF writes = 0
    THEN lastNotify = <<>>
    ELSE /\ Len(lastNotify) = NumListeners
         /\ state = lastEdge[2]
         /\ \A i \in 1..NumListeners :
              lastNotify[i] = <<state_change_listeners[i], CallbackFor(lastEdge[2]), lastEdge[1]>>

\* The rollback hook notified the listeners of HalfOpen -> Open.
C8_Witness ==
    /\ lastEdge = <<"HalfOpen", "Open">>
    /\ lastNotify = [i \in 1..NumListeners |-> <<i, "to_open", "HalfOpen">>]
    /\ next_retry_timestamp_ms # openedAt + RetryTimeoutMs

\* C9: a listener callback that panics during a transition is isolated: the
\* written state stays committed, every remaining listener is still notified
\* for that transition, and no transition operation, try_pass or current_state
\* call (none of the callers) fails, then or later.
C9_ListenerFailureIsolated ==
    /\ (writes > 0) => (Len(lastNotify) = NumListeners /\ state = lastEdge[2])
    /\ \A t \in Threads : pc[t] # "panicked"

\* The probe admitted through thread p has not resolved: its completion is not
\* processed yet, or it was blocked and its exit hook has not run yet.
Unresolved(p) ==
    /\ role[p] = "probe"
    /\ \/ pc[p] \in {"pass", "c2o_lock", "c2o_cs", "h2o_lock", "h2o_cs", "h2c_lock", "h2c_cs"}
       \/ blocked[p] /\ pc[p] \in {"hook_lock", "hook_cs"}

\* try_pass of thread t returns true in this step.
Admitted(t) == pc[t] # "pass" /\ pc'[t] = "pass"

\* C10: once a probe has been admitted, no other try_pass call is admitted
\* until that probe has resolved.
C10_ProbeExclusive ==
    [][\A t \in Threads : Admitted(t) => (\A p \in Threads \ {t} : ~Unresolved(p))]_vars

\* C11: after a successful HalfOpen->Closed transition the strategy's
\* reset_metric leaves the aggregate all-zero, and the breaker never goes
\* Closed->Open on evidence from before that transition: the call that trips it
\* evaluated the trip predicate in the current Closed period, with no statistics
\* reset pending.
C11_NoTripOnPreResetEvidence ==
    [][/\ \A t \in Threads : (pc[t] = "reset" /\ pc'[t] # "reset") => (total' = 0 /\ errs' = 0)
       /\ \A t \in Threads : (pc[t] = "c2o_cs" /\ state = "Closed" /\ state' = "Open") =>
             (evalAt[t] = changes)]_vars

\* on_request_complete of thread t records and evaluates in this step.
Evaluates(t) == pc[t] = "pass" /\ pc'[t] # "pass" /\ total' = total + 1

\* The breaker leaves Closed only for Open, by a from_closed_to_open call that
\* found it Closed, and such a call always does move it to Open.
TripsThroughClosedToOpen ==
    /\ \A t \in Threads : (pc[t] = "c2o_cs" /\ pc'[t] # "c2o_cs" /\ state = "Closed") =>
          (state' = "Open")
    /\ (state = "Closed" /\ state' # "Closed") =>
          (state' = "Open" /\ \E t \in Threads : pc[t] = "c2o_cs" /\ pc'[t] # "c2o_cs")

InWrongState(t) ==
    \/ pc[t] = "c2o_cs" /\ state # "Closed"
    \/ pc[t] = "o2h_cs" /\ state # "Open"
    \/ pc[t] \in {"h2o_cs", "h2c_cs"} /\ state # "HalfOpen"

\* C14: a guarded transition operation that runs while the breaker is not in
\* its expected source state returns false and changes nothing: the state, the
\* next-retry timestamp and every listener's callbacks stay as they are, nothing
\* is assigned, and the caller's entry gets no exit hook.
C14_WrongStateNoOp ==
    [][\A t \in Threads : (InWrongState(t) /\ pc'[t] # pc[t]) =>
          /\ ret' = FALSE
          /\ state' = state
          /\ writes' = writes
          /\ next_retry_timestamp_ms' = next_retry_timestamp_ms
          /\ cbCount' = cbCount
          /\ lastNotify' = lastNotify
          /\ hook'[t] = hook[t]
          /\ (pc[t] = "o2h_cs") => ~hook'[t]]_vars

\* After the last trip (Closed->Open) a transition operation other than
\* from_open_to_half_open ran in state Open and returned false.
C14_Witness ==
    /\ ret = FALSE
    /\ state = "Open"
    /\ lastEdge = <<"Closed", "Open">>
    /\ attemptsThisOpen = 0
    /\ next_retry_timestamp_ms = openedAt + RetryTimeoutMs

\* The exit hook of thread t runs in this step.
HookRuns(t) == pc[t] = "hook_cs" /\ pc'[t] # "hook_cs"

\* C15: the exit hook changes the breaker only when the call is blocked and the
\* state is HalfOpen at the time it runs: it then writes Open and every listener
\* gets to_open with prev = HalfOpen and the fixed snapshot 1.0; in every other
\* case the state stays as it is and no listener is notified.
C15_HookRollsBackOnlyBlockedHalfOpen ==
    [][\A t \in Threads : HookRuns(t) =>
          IF blocked[t] /\ state = "HalfOpen"
          THEN /\ state' = "Open"
               /\ lastNotify' = [i \in 1..NumListeners |->
                                   <<state_change_listeners[i], "to_open", "HalfOpen">>]
               /\ cbCount' = [l \in Listeners |-> cbCount[l] + 1]
               /\ lastSnapshot' = "1.0"
          ELSE /\ state' = state
               /\ writes' = writes
               /\ cbCount' = cbCount
               /\ lastNotify' = lastNotify
               /\ lastSnapshot' = lastSnapshot]_vars

\* A hook has rolled the breaker back, and no listener has been told anything since.
C15_Witness ==
    /\ lastSnapshot = "1.0"
    /\ state = "Open"
    /\ lastEdge = <<"HalfOpen", "Open">>
    /\ \A t \in Threads : pc[t] \notin {"hook_lock", "hook_cs"}

\* C16: from_open_to_half_open called in state Open with a context that has no
\* entry still makes the transition (state HalfOpen, every listener gets
\* to_half_open with prev = Open, the call returns true) and registers no exit
\* hook: that call never reaches an exit hook, so no rollback comes from it.
C16_NoEntryStillHalfOpens ==
    /\ [][\A t \in Threads : (ReturnsHalfOpen(t) /\ state = "Open" /\ noEntry'[t]) =>
            /\ state' = "HalfOpen"
            /\ lastNotify' = [i \in 1..NumListeners |->
                                <<state_change_listeners[i], "to_half_open", "Open">>]
            /\ ret' = TRUE
            /\ pc'[t] = "pass"
            /\ ~hook'[t]]_vars
    /\ [](\A t \in Threads : noEntry[t] => (~hook[t] /\ pc[t] \notin {"hook_lock", "hook_cs"}))

\* A probe admitted without entry has been blocked elsewhere while the breaker
\* is still HalfOpen: its call has ended and the breaker is left HalfOpen.
C16_Witness ==
    /\ state = "HalfOpen"
    /\ prober # NoThread
    /\ pc[prober] = "idle"
    /\ lastEdge = <<"Open", "HalfOpen">>
    /\ ret = TRUE
    /\ lastSnapshot = "none"
    /\ \A t \in Threads : pc[t] = "idle"

\* C17: the breaker leaves HalfOpen only by a step of the caller that won the
\* Open->HalfOpen transition (its completion or its exit hook); no other
\* caller's try_pass or on_request_complete and no passing of time moves it out.
C17_HalfOpenUntilProbeReports ==
    [][(state = "HalfOpen" /\ state' # "HalfOpen") =>
          (prober # NoThread /\ pc'[prober] # pc[prober] /\ role[prober] = "probe")]_vars

\* C18: an exit hook that rolls the breaker back to Open does so only in the
\* HalfOpen period its own call opened: never in a later HalfOpen period that a
\* different call entered.
C18_HookRevertsOwnPeriodOnly ==
    [][\A t \in Threads : (HookRuns(t) /\ state = "HalfOpen" /\ state' = "Open") =>
          (prober = t)]_vars

\* Thread t waits for a Mutex that another thread holds.
Waits(t) ==
    \/ opAt[t][2] = "state_wait" /\ mutex # NoThread
    \/ opAt[t][2] = "listeners_wait" /\ registry # NoThread

\* C19: every operation acquires the registry lock only while it holds the
\* state lock, no operation waits for (or takes) the state lock while it holds
\* the registry lock, and therefore concurrent transition operations,
\* current_state reads and exit hooks never deadlock: while an operation is
\* under way some caller is able to go on, and all operations complete.
C19_StateLockBeforeRegistryLock ==
    /\ [][\A t \in Threads : (registry' = t /\ registry # t) => (mutex = t)]_vars
    /\ [](\A t \in Threads : (opAt[t][2] = "state_wait") => (registry # t))
    /\ []((\E t \in Threads : opAt[t][2] # "idle") =>
             (\E t \in Threads : opAt[t][2] # "idle" /\ ~Waits(t)))
    /\ <>(calls = MaxCalls /\ \A t \in Threads : opAt[t][2] = "idle")

\* One caller has dropped the state lock and still holds the registry lock
\* (from_open_to_half_open, before it returns), a second one holds the state
\* lock, has written and waits for the registry, a third one waits for the
\* state lock.
C19_Witness ==
    \E t1, t2, t3 \in Threads :
        /\ opAt[t1][2] = "when_exit" /\ registry = t1
        /\ opAt[t2][2] = "listeners_wait" /\ mutex = t2
        /\ opAt[t3][2] = "state_wait"

\* The state a callback announces.
TargetOf(kind) ==
    CASE kind = "to_open" -> "Open"
      [] kind = "to_half_open" -> "HalfOpen"
      [] kind = "to_closed" -> "Closed"

\* The callback listener l got in the notification loop n.
CallbackOf(l, n) == n[CHOOSE i \in 1..Len(n) : n[i][1] = l]

\* C20: in the sequence of callbacks a listener receives, the prev state of the
\* first callback is Closed and the prev state of every later callback is the
\* target state of the callback just before it.
C20_CallbacksChain ==
    [][\A l \in Listeners : (cbCount'[l] # cbCount[l]) =>
          /\ cbCount'[l] = cbCount[l] + 1
          /\ \E i \in 1..Len(lastNotify') : lastNotify'[i][1] = l
          /\ CallbackOf(l, lastNotify')[3] =
                IF cbCount[l] = 0 THEN DefaultState
                ELSE TargetOf(CallbackOf(l, lastNotify)[2])]_vars

\* Listener 2 has received a chain of five callbacks that ends with the trip
\* after a full round.
C20_Witness ==
    /\ cbCount[2] >= 5
    /\ CallbackOf(2, lastNotify) = <<2, "to_open", "Closed">>

====
